---- MODULE Spec2Model ----
(***************************************************************************)
(* The wagering engines of the coin-toss examples.                         *)
(*                                                                         *)
(*   engine = "cointoss"     : examples/cointoss/src (GameManager,         *)
(*                             random outcome, execute command)            *)
(*   engine = "cointoss_new" : examples/cointoss_new/chatbot.ts            *)
(*                             (TossManager, creator-chosen outcome,       *)
(*                             close command)                              *)
(*                                                                         *)
(* Both engines keep JSON wager records in a key/value store (one record   *)
(* per id) and an escrow wallet per wager.  Every message is handled by a  *)
(* fresh manager object, one message after the other.                      *)
(*                                                                         *)
(* Not modelled: createdAt, transactionLink (never read by the engine),    *)
(* the text of replies, balances on chain (a transfer's result is chosen   *)
(* by the environment), the wallets of users (a lookup's result is chosen  *)
(* by the environment).                                                    *)
(***************************************************************************)
EXTENDS Integers, Sequences, FiniteSets, TLC

VARIABLES
  engine,    \* which example runs: "cointoss" or "cointoss_new"
  games,     \* the store: id -> wager record, or NoGame
  wallets,   \* wallet storage for escrow keys: id -> number of wallets created for the key (0: none)
  cur,       \* the executeCoinToss call in flight (between its two store writes), or Idle
  last,      \* the last finished call: what was called and how it ended
  calls,     \* addPlayerToGame calls started without waiting for one another: player -> call
  prompt,    \* the natural-language prompt of a toss request
  response,  \* the agent's answer to the parsing request
  parsed,    \* what parseNaturalLanguageToss returned or threw
  storage,      \* wallet storage: which module, the backend chosen by initializeStorage
  walletFiles,  \* the files of the local wallet directory: user -> data, or NoData
  redisKeys,    \* the wallet keys of the Redis server: user -> data, or NoData
  storageLast,  \* the last call of the wallet storage and what it returned
  agent,        \* the agent whose message listener runs
  listening,    \* the `for await` loop of startMessageListener is still running
  handled,      \* messages handed to handleMessage so far
  replies,      \* replies (answers and error messages) sent to conversations so far
  lastMessage   \* how the handling of the last message ended

raceVars == <<calls>>
parseVars == <<prompt, response, parsed>>
storageVars == <<storage, walletFiles, redisKeys, storageLast>>

listenerVars == <<agent, listening, handled, replies, lastMessage>>

\* the state outside the two engines' sequential message handling
others == <<raceVars, parseVars, storageVars, listenerVars>>

vars == <<engine, games, wallets, cur, last, others>>

----------------------------------------------------------------------------
(* Bounds of the model *)

MaxId == 1          \* wager ids 1..MaxId
MaxWalletGen == 2   \* wallets ever created for one escrow key
MaxRand == 2        \* the 32-bit value the random draw is taken from: -MaxRand..MaxRand

Users == {"u1", "u2", "u3"}
Creators == {"u1"}                    \* the users who create wagers
Labels == {"Yes", "no"}               \* option labels participants type when joining
DeclaredOptions == <<"yes", "no">>    \* the options of a wager made from a prompt
Outcomes == {"yes", "no", "maybe"}    \* winning options a creator types when closing
Amounts == {5}                        \* stake amounts (betAmount "5")
Ids == 1..MaxId
TypedOptions == Labels \cup {"maybe"}     \* with an option no wager declares
RandomValues == (0 - MaxRand)..MaxRand

----------------------------------------------------------------------------
(* Strings and arrays *)

\* String.prototype.toLowerCase on the labels of the model
ToLowerCase(s) == IF s = "Yes" THEN "yes" ELSE s

\* Array.prototype.includes
Includes(seq, x) == \E i \in 1..Len(seq) : seq[i] = x

\* Array.from(new Set(seq)): first occurrences, in order
RECURSIVE Unique(_)
Unique(seq) ==
  IF seq = <<>> THEN <<>>
  ELSE LET init == Unique(SubSeq(seq, 1, Len(seq) - 1))
           x == seq[Len(seq)]
       IN IF Includes(init, x) THEN init ELSE Append(init, x)

\* the % operator of JavaScript: the result has the sign of the dividend
JsRem(a, b) == IF a >= 0 THEN a % b ELSE 0 - ((0 - a) % b)

----------------------------------------------------------------------------
(* Wager records *)

NoGame == [status |-> "NONE"]
Idle == [op |-> "idle"]
NoTransfers == <<>>

\* the listener with every handler started without waiting for the one before
ListenerNeverWaits == TRUE

\* startMessageListener: `await handleMessage(...)` inside the `for await` loop;
\* the next message is taken only when the handler of the previous one is over
ListenerReady == cur = Idle

Terminal == {"COMPLETED", "CANCELLED"}

\* no addPlayerToGame call is under way outside the listener
NoCall == [pc |-> "none"]
NoCalls == calls = [u \in Users |-> NoCall]

\* no prompt is being parsed
NoPrompt == [words |-> "", length |-> 0, for |-> <<>>]
NotParsed == [status |-> "none"]
NoParse ==
  /\ prompt = NoPrompt
  /\ response = [kind |-> "none"]
  /\ parsed = NotParsed

\* the wallet storage is not in use
StorageUsers == {"u1", "u2"}
NoData == "null"
NoStorage ==
  /\ storage = [module |-> "none", backend |-> "none"]
  /\ walletFiles = [u \in StorageUsers |-> NoData]
  /\ redisKeys = [u \in StorageUsers |-> NoData]
  /\ storageLast = [op |-> "none"]

\* no message listener runs
NoListener ==
  /\ agent = "none"
  /\ listening = FALSE
  /\ handled = 0
  /\ replies = 0
  /\ lastMessage = "none"

\* the key of a wager's escrow wallet, and the address of the n-th wallet made for it
WalletAddress(id, gen) == <<id, gen>>

\* a createGame that enrolls the creator as the first participant
NewGameWithCreator(creator, betAmount, walletAddress) ==
  [creator |-> creator,
   betAmount |-> betAmount,
   status |-> "CREATED",
   participants |-> <<creator>>,
   participantOptions |-> <<>>,
   walletAddress |-> walletAddress,
   coinTossResult |-> "",
   paymentSuccess |-> FALSE,
   winner |-> <<>>,
   betTopic |-> "",
   betOptions |-> <<>>]

\* the object literal of createGame
NewGame(creator, betAmount, walletAddress) ==
  [creator |-> creator,
   betAmount |-> betAmount,
   status |-> "CREATED",
   participants |-> <<>>,
   participantOptions |-> <<>>,
   walletAddress |-> walletAddress,
   coinTossResult |-> "",
   paymentSuccess |-> FALSE,
   winner |-> <<>>,
   betTopic |-> "",
   betOptions |-> <<>>]

\* a listing without the status filter
listEveryGame == {id \in Ids : games[id] # NoGame}

\* StorageProvider.listActiveGames / StorageService.listActiveTosses
listActiveGames == {id \in Ids : games[id] # NoGame /\ games[id].status \notin Terminal}

\* the ids of all stored wagers (the files of the toss directory)
StoredIds == {id \in Ids : games[id] # NoGame}

MaxOf(S) == IF S = {} THEN 0 ELSE CHOOSE m \in S : \A x \in S : x <= m

\* GameManager.initializeLastGameId: runs unawaited from the constructor, so
\* lastGameId is still 0 if getNextGameId runs first (initDone = FALSE)
initializeLastGameId(initDone) == IF initDone THEN MaxOf(listActiveGames) ELSE 0

\* GameManager.getNextGameId
getNextGameId(lastGameId) == lastGameId + 1

\* TossManager.getLastIdToss
getLastIdToss == MaxOf(StoredIds)

----------------------------------------------------------------------------
Init ==
  /\ engine \in {"cointoss", "cointoss_new"}
  /\ games = [id \in Ids |-> NoGame]
  /\ wallets = [id \in Ids |-> 0]
  /\ cur = Idle
  /\ last = [op |-> "start", id |-> 0, outcome |-> "ok", transfers |-> NoTransfers]
  /\ NoCalls
  /\ NoParse
  /\ NoStorage
  /\ NoListener

\* a call ends: outcome is "ok" or the message of the error thrown (or replied),
\* transfers are the calls of walletService.transfer it made, in order
Done(op, id, outcome, transfers) ==
  last' = [op |-> op, id |-> id, outcome |-> outcome, transfers |-> transfers]

\* GameManager.createGame / TossManager.createGame, from the id on
\* walletOk = FALSE: Wallet.create fails and createWallet throws
CreateGameAt(op, id, creator, betAmount, topic, options, walletOk) ==
  IF ~walletOk
  THEN /\ Done(op, id, "Wallet creation failed", NoTransfers)
       /\ UNCHANGED <<games, wallets>>
  ELSE /\ wallets' = [wallets EXCEPT ![id] = @ + 1]
       /\ games' = [games EXCEPT ![id] =
             [NewGame(creator, betAmount, WalletAddress(id, wallets[id] + 1))
                EXCEPT !.betTopic = topic, !.betOptions = options]]
       /\ Done(op, id, "ok", NoTransfers)

\* the id createGame gives the new wager
NextId(initDone) ==
  IF engine = "cointoss" THEN getNextGameId(initializeLastGameId(initDone))
  ELSE getLastIdToss + 1

\* GameManager.createGame / TossManager.createGame
createGame(creator, betAmount, initDone, walletOk) ==
  /\ ListenerReady
  /\ engine = "cointoss_new" => initDone
  /\ NextId(initDone) \in Ids
  /\ wallets[NextId(initDone)] < MaxWalletGen
  /\ CreateGameAt("createGame", NextId(initDone), creator, betAmount, "", <<>>, walletOk)
  /\ UNCHANGED <<engine, others, cur>>

\* GameManager.createGameFromPrompt / TossManager.createGameFromPrompt
\* how = "parse": the parser throws (agent failure, or "valid": false)
\* how = "wallet": Wallet.create fails inside createGame
createGameFromPrompt(creator, topic, options, amount, how) ==
  /\ ListenerReady
  /\ NextId(TRUE) \in Ids
  /\ wallets[NextId(TRUE)] < MaxWalletGen
  /\ IF how = "parse"
     THEN /\ Done("createGameFromPrompt", 0, "Invalid toss request", NoTransfers)
          /\ UNCHANGED <<games, wallets>>
     ELSE CreateGameAt("createGameFromPrompt", NextId(TRUE), creator, amount,
                       topic, options, how # "wallet")
  /\ UNCHANGED <<engine, others, cur>>

----------------------------------------------------------------------------
(* Joining *)

\* AcceptsPlayers without the status test
AcceptsPlayersAlways(game) == TRUE

\* the status test of addPlayerToGame and joinGame
AcceptsPlayers(game) == game.status \in {"CREATED", "WAITING_FOR_PLAYER"}

\* AlreadyIn without the duplicate test
NeverAlreadyIn(game, player) == FALSE

\* the duplicate test of addPlayerToGame and joinGame
AlreadyIn(game, player) == Includes(game.participants, player)

\* OptionAllowed without the test against the declared options
OptionAlwaysAllowed(game, chosenOption) == TRUE

\* the option test of addPlayerToGame
OptionAllowed(game, chosenOption) ==
  \/ Len(game.betOptions) = 0
  \/ \E i \in 1..Len(game.betOptions) :
        ToLowerCase(game.betOptions[i]) = ToLowerCase(chosenOption)

\* the checks of addPlayerToGame, in order: the message thrown, or "ok"
AddPlayerError(game, player, chosenOption, hasPaid) ==
  IF game = NoGame THEN "Game not found"
  ELSE IF ~AcceptsPlayers(game) THEN "Game is not accepting players"
  ELSE IF AlreadyIn(game, player) THEN "You are already in this game"
  ELSE IF ~hasPaid THEN "Please pay to join the game"
  ELSE IF ~OptionAllowed(game, chosenOption) THEN "Invalid option"
  ELSE "ok"

\* the status addPlayerToGame sets once the player is pushed
StatusAfterJoin(game, n) ==
  IF n = 1 THEN "WAITING_FOR_PLAYER"
  ELSE IF n >= 2 THEN "WAITING_FOR_PLAYER"
  ELSE game.status

\* the record addPlayerToGame writes
WithPlayer(game, player, chosenOption) ==
  [game EXCEPT
     !.participants = Append(@, player),
     !.participantOptions = Append(@, [userId |-> player, option |-> chosenOption]),
     !.status = StatusAfterJoin(game, Len(game.participants) + 1)]

\* the checks of joinGame: the message thrown, or "ok"
JoinGameError(game, player) ==
  IF game = NoGame THEN "Game not found"
  ELSE IF ~AcceptsPlayers(game) THEN "Game is not accepting players"
  ELSE IF AlreadyIn(game, player) THEN "You are already in this game"
  ELSE "ok"

\* GameManager.addPlayerToGame / TossManager.addPlayerToGame
addPlayerToGame(gameId, player, chosenOption, hasPaid) ==
  /\ ListenerReady
  /\ LET err == AddPlayerError(games[gameId], player, chosenOption, hasPaid)
     IN /\ games' = IF err = "ok"
                    THEN [games EXCEPT ![gameId] = WithPlayer(@, player, chosenOption)]
                    ELSE games
        /\ Done("addPlayerToGame", gameId, err, NoTransfers)
  /\ UNCHANGED <<engine, others, wallets, cur>>

\* what walletService.transfer can do: return a transfer whose wait succeeded
\* ("ok"), return a transfer whose wait timed out or failed ("timeout"),
\* return undefined before any transfer is made ("undefined"), or throw
TransferResults == {"ok", "timeout", "undefined", "throw"}

\* the truthiness test `if (transfer)` on the value transfer() returned
Truthy(result) == result \in {"ok", "timeout"}

Whole(n) == [num |-> n, den |-> 1]

\* makePayment returning true whatever the transfer did
makePaymentAlways(pay) == TRUE

\* GameManager.makePayment / TossManager.makePayment
\* pay = "nowallet": the payer's wallet lookup throws before transfer is called
\* (cointoss only: cointoss_new looks the payer's wallet up inside transfer)
makePayment(pay) == pay \in TransferResults /\ Truthy(pay)

\* the call of walletService.transfer makePayment makes
PaymentTransfers(gameId, user, amount, pay) ==
  IF pay \in TransferResults
  THEN <<[kind |-> "stake", game |-> gameId, user |-> user,
          amount |-> Whole(amount), result |-> pay]>>
  ELSE NoTransfers

\* the option test of the join command of cointoss_new, made before paying
JoinCommandOptionOk(game, chosenOption) ==
  engine = "cointoss" \/ OptionAllowed(game, chosenOption)

\* what the environment does to a join: the balance is too low ("insufficient",
\* checked by cointoss only), or the payment ends in one of the ways above
PayOutcomes == TransferResults \cup {"nowallet", "insufficient"}

\* handleExplicitCommand, case "join".  chosenOption = "": no option typed
joinCommand(gameId, userId, chosenOption, pay) ==
  /\ ListenerReady
  /\ engine = "cointoss_new" => pay \notin {"insufficient", "nowallet"}
  /\ LET game == games[gameId]
         joinErr == JoinGameError(game, userId)
         paid == PaymentTransfers(gameId, userId, game.betAmount, pay)
         addErr == AddPlayerError(game, userId, chosenOption, TRUE)
     IN IF joinErr # "ok"
        THEN /\ Done("join", gameId, joinErr, NoTransfers)
             /\ games' = games
        ELSE IF chosenOption = ""
        THEN /\ Done("join", gameId, "Please specify your option", NoTransfers)
             /\ games' = games
        ELSE IF ~JoinCommandOptionOk(game, chosenOption)
        THEN /\ Done("join", gameId, "Invalid option", NoTransfers)
             /\ games' = games
        ELSE IF pay = "insufficient"
        THEN /\ Done("join", gameId, "Insufficient USDC balance", NoTransfers)
             /\ games' = games
        ELSE IF ~makePayment(pay)
        THEN /\ Done("join", gameId, "Payment failed", paid)
             /\ games' = games
        ELSE /\ Done("join", gameId, addErr, paid)
             /\ games' = IF addErr = "ok"
                         THEN [games EXCEPT ![gameId] = WithPlayer(@, userId, chosenOption)]
                         ELSE games
  /\ UNCHANGED <<engine, others, wallets, cur>>

----------------------------------------------------------------------------
(* Resolving *)

\* the options the outcome is taken from: the declared ones, or else the
\* distinct options the participants chose
EffectiveOptions(game) ==
  IF Len(game.betOptions) > 0 THEN game.betOptions
  ELSE Unique([i \in 1..Len(game.participantOptions) |-> game.participantOptions[i].option])

\* ExecuteError without the status test
ExecuteErrorAnyStatus(game) ==
  IF game = NoGame THEN "Game not found"
  ELSE IF Len(game.participants) < 2 THEN "Game needs at least 2 players"
  ELSE "ok"

\* the checks executeCoinToss makes before its first write: the message
\* thrown, or "ok"
ExecuteError(game) ==
  IF game = NoGame THEN "Game not found"
  ELSE IF game.status # "WAITING_FOR_PLAYER" THEN "Game is not ready for coin toss"
  ELSE IF Len(game.participants) < 2 THEN "Game needs at least 2 players"
  ELSE IF engine = "cointoss_new" /\ Len(game.participantOptions) = 0
       THEN "No participant options found in the toss"
  ELSE IF engine = "cointoss_new" /\ Len(EffectiveOptions(game)) < 2
       THEN "Not enough unique options to choose from"
  ELSE "ok"

\* executeCoinToss up to and including its first write (status IN_PROGRESS)
ExecuteBegin(op, gameId, winningOption) ==
  LET err == ExecuteError(games[gameId])
  IN IF err # "ok"
     THEN /\ Done(op, gameId, err, NoTransfers)
          /\ UNCHANGED <<games, cur>>
     ELSE /\ games' = [games EXCEPT ![gameId].status = "IN_PROGRESS"]
          /\ cur' = [op |-> op, id |-> gameId, option |-> winningOption]
          /\ UNCHANGED last

\* GameManager.executeCoinToss(gameId) / TossManager.executeCoinToss(tossId, winningOption)
executeCoinToss(gameId, winningOption) ==
  /\ ListenerReady
  /\ (engine = "cointoss") = (winningOption = "")
  /\ ExecuteBegin("executeCoinToss", gameId, winningOption)
  /\ UNCHANGED <<engine, others, wallets>>

\* the option test of the close command (cointoss_new): tossOptions declared
\* and the winning option not among them
CloseOptionRefused(game, winningOption) ==
  /\ engine = "cointoss_new"
  /\ Len(game.betOptions) > 0
  /\ ~\E i \in 1..Len(game.betOptions) :
        ToLowerCase(game.betOptions[i]) = ToLowerCase(winningOption)

\* CommandError without the test of the sender against the creator
CommandErrorAnySender(game, userId, winningOption) ==
  IF game = NoGame THEN "Game not found."
  ELSE IF Len(game.participants) < 2 THEN "At least 2 players are needed"
  ELSE IF CloseOptionRefused(game, winningOption) THEN "Invalid option."
  ELSE "ok"

\* the checks of the execute / close command before it calls executeCoinToss
CommandError(game, userId, winningOption) ==
  IF game = NoGame THEN "Game not found."
  ELSE IF game.creator # userId THEN "Only the game creator can execute the coin toss."
  ELSE IF Len(game.participants) < 2 THEN "At least 2 players are needed"
  ELSE IF CloseOptionRefused(game, winningOption) THEN "Invalid option."
  ELSE "ok"

CommandName == IF engine = "cointoss" THEN "execute" ELSE "close"

\* handleExplicitCommand, case "execute" (cointoss) / case "close" (cointoss_new)
executeCommand(gameId, userId, winningOption) ==
  /\ ListenerReady
  /\ (engine = "cointoss") = (winningOption = "")
  /\ LET err == CommandError(games[gameId], userId, winningOption)
     IN IF err # "ok"
        THEN /\ Done(CommandName, gameId, err, NoTransfers)
             /\ UNCHANGED <<games, cur>>
        ELSE ExecuteBegin(CommandName, gameId, winningOption)
  /\ UNCHANGED <<engine, others, wallets>>

\* the divisor of the random draw
RandomModulus == 1000000

\* winningOptionIndex, from the 32-bit value of (timestamp ^ random)
WinningOptionIndex(xor, n) == JsRem(JsRem(xor, RandomModulus), n)

\* Array.prototype.find with a case-insensitive match: the index of the first
\* option equal to winningOption, or 0
FindOption(options, winningOption) ==
  LET hits == {i \in 1..Len(options) : ToLowerCase(options[i]) = ToLowerCase(winningOption)}
  IN IF hits = {} THEN 0 ELSE CHOOSE i \in hits : \A j \in hits : i <= j

\* Winners without the filter
WinnersEveryone(game, winningOption) == game.participantOptions

\* the participants who chose the winning option
Winners(game, winningOption) ==
  SelectSeq(game.participantOptions,
            LAMBDA p : ToLowerCase(p.option) = ToLowerCase(winningOption))

\* game.winner: the ids of the winners (joined with commas in the record)
WinnerIds(winners) == [i \in 1..Len(winners) |-> winners[i].userId]

\* PrizePerWinner paying each winner the stake
PrizeIsStake(game, winners) == [num |-> game.betAmount, den |-> 1]

\* totalPot / winners.length, with totalPot = betAmount * participants.length
PrizePerWinner(game, winners) ==
  [num |-> game.betAmount * Len(game.participants), den |-> Len(winners)]

\* what happens to one winner: the wallet lookup fails and the transfer is
\* skipped ("skip"), or transfer is called and ends in one of its four ways
WinnerOutcomes == TransferResults \cup {"skip"}

\* the calls of walletService.transfer the payout loop makes
PayoutTransfers(gameId, game, winners, outs) ==
  LET all == [i \in 1..Len(winners) |->
                [kind |-> "payout", game |-> gameId, user |-> winners[i].userId,
                 amount |-> PrizePerWinner(game, winners), result |-> outs[i]]]
  IN SelectSeq(all, LAMBDA t : t.result # "skip")

\* AllTransfersSuccessful satisfied by one successful transfer
SomeTransferSuccessful(winners, outs) ==
  \E i \in 1..Len(winners) : outs[i] # "skip" /\ Truthy(outs[i])

\* paymentSuccess after the payout loop
AllTransfersSuccessful(winners, outs) ==
  \A i \in 1..Len(winners) : outs[i] # "skip" /\ Truthy(outs[i])

\* Cancelled writing COMPLETED
CancelledAsCompleted(game) == [game EXCEPT !.status = "COMPLETED", !.paymentSuccess = FALSE]

\* the record of the cancelling branches of executeCoinToss
Cancelled(game) == [game EXCEPT !.status = "CANCELLED", !.paymentSuccess = FALSE]

\* the record written at the end of executeCoinToss when there are winners
Completed(game, winningOption, winners, paid) ==
  [game EXCEPT !.status = "COMPLETED",
               !.coinTossResult = winningOption,
               !.winner = WinnerIds(winners),
               !.paymentSuccess = paid]

\* the payout of GameManager.executeCoinToss, once there are winners
\*   escrow: getWallet(`game:${gameId}`) finds the wallet ("found"), cannot
\*           import it and makes a new one ("recreated"), or throws ("throws")
\*   outs: what happens to each winner
GamePayout(id, game, winningOption, winners, escrow, outs) ==
  IF escrow = "throws"
  THEN /\ games' = [games EXCEPT ![id] = Completed(game, winningOption, winners, FALSE)]
       /\ Done(cur.op, id, "ok", NoTransfers)
       /\ UNCHANGED wallets
  ELSE /\ escrow = "recreated" => wallets[id] < MaxWalletGen
       /\ wallets' = IF escrow = "recreated"
                     THEN [wallets EXCEPT ![id] = @ + 1] ELSE wallets
       /\ games' = [games EXCEPT ![id] =
                       Completed(game, winningOption, winners,
                                 AllTransfersSuccessful(winners, outs))]
       /\ Done(cur.op, id, "ok", PayoutTransfers(id, game, winners, outs))

\* GameManager.executeCoinToss after its first write
\*   xor: the 32-bit value of timestamp ^ parseInt(random bytes)
GameFinish(xor) ==
  LET id == cur.id
      game == games[id]
      options == EffectiveOptions(game)
      index == WinningOptionIndex(xor, Len(options))
      winningOption == options[index + 1]
      winners == Winners(game, winningOption)
  IN IF Len(game.participants) = 0 \/ Len(game.participantOptions) = 0 \/ Len(options) < 2
     THEN /\ games' = [games EXCEPT ![id] = Cancelled(game)]
          /\ Done(cur.op, id, "ok", NoTransfers)
          /\ UNCHANGED wallets
     ELSE IF index < 0
     THEN \* options[index] is undefined; winningOption.toLowerCase() throws
          /\ Done(cur.op, id, "TypeError", NoTransfers)
          /\ UNCHANGED <<games, wallets>>
     ELSE IF Len(winners) = 0
     THEN /\ games' = [games EXCEPT ![id] =
                          [Cancelled(game) EXCEPT !.coinTossResult = winningOption]]
          /\ Done(cur.op, id, "ok", NoTransfers)
          /\ UNCHANGED wallets
     ELSE \E escrow \in {"found", "recreated", "throws"},
             outs \in [1..Len(winners) -> WinnerOutcomes] :
            GamePayout(id, game, winningOption, winners, escrow, outs)

\* the payout of TossManager.executeCoinToss, once there are winners
\*   escrow: getWallet(tossId) finds the wallet ("found") or throws ("throws")
TossPayout(id, game, matchingOption, winners, escrow, outs) ==
  IF escrow = "throws"
  THEN /\ Done(cur.op, id, "Wallet import failed", NoTransfers)
       /\ UNCHANGED games
  ELSE /\ games' = [games EXCEPT ![id] =
                       Completed(game, matchingOption, winners,
                                 AllTransfersSuccessful(winners, outs))]
       /\ Done(cur.op, id, "ok", PayoutTransfers(id, game, winners, outs))

\* TossManager.executeCoinToss after its first write
TossFinish ==
  LET id == cur.id
      game == games[id]
      options == EffectiveOptions(game)
      found == FindOption(options, cur.option)
      matchingOption == options[found]
      winners == Winners(game, matchingOption)
  IN IF found = 0
     THEN /\ games' = [games EXCEPT ![id] = Cancelled(game)]
          /\ Done(cur.op, id, "Invalid winning option provided", NoTransfers)
     ELSE IF Len(winners) = 0
     THEN /\ games' = [games EXCEPT ![id] =
                          [Cancelled(game) EXCEPT !.coinTossResult = matchingOption]]
          /\ Done(cur.op, id, "No winners found for option", NoTransfers)
     ELSE \E escrow \in {"found", "throws"},
             outs \in [1..Len(winners) -> WinnerOutcomes] :
            TossPayout(id, game, matchingOption, winners, escrow, outs)

\* the rest of executeCoinToss: outcome, winners, payouts, last write
executeCoinTossFinish ==
  /\ cur # Idle
  /\ IF engine = "cointoss"
     THEN \E xor \in RandomValues : GameFinish(xor)
     ELSE TossFinish /\ UNCHANGED wallets
  /\ cur' = Idle
  /\ UNCHANGED <<engine, others>>

\* CancelError without the test for a completed wager
CancelErrorNoCompleted(game) ==
  IF game = NoGame THEN "Game not found" ELSE "ok"

\* the checks of cancelGame: the message thrown, or "ok"
CancelError(game) ==
  IF game = NoGame THEN "Game not found"
  ELSE IF game.status = "COMPLETED" THEN "Cannot cancel completed game"
  ELSE "ok"

\* GameManager.cancelGame (cointoss only: TossManager has no cancel)
cancelGame(gameId) ==
  /\ ListenerReady
  /\ engine = "cointoss"
  /\ LET err == CancelError(games[gameId])
     IN /\ games' = IF err = "ok"
                    THEN [games EXCEPT ![gameId].status = "CANCELLED"]
                    ELSE games
        /\ Done("cancelGame", gameId, err, NoTransfers)
  /\ UNCHANGED <<engine, others, wallets, cur>>

\* handleExplicitCommand, case "list": GameManager.listActiveGames /
\* StorageService.listActiveTosses; last.listed is what the call returned
listCommand ==
  /\ ListenerReady
  /\ last' = [op |-> "list", id |-> 0, outcome |-> "ok", transfers |-> NoTransfers,
              listed |-> listActiveGames]
  /\ UNCHANGED <<engine, others, games, wallets, cur>>

\* the options senders type when joining wager g: "maybe" is only sent to
\* wagers that declare their options (any other wager accepts every option)
OptionsTyped(g) ==
  IF games[g] # NoGame /\ Len(games[g].betOptions) > 0 THEN TypedOptions ELSE Labels

----------------------------------------------------------------------------
Next ==
  \/ \E c \in Creators, a \in Amounts, d \in BOOLEAN, w \in BOOLEAN : createGame(c, a, d, w)
  \/ \E c \in Creators, a \in Amounts, how \in {"ok", "parse", "wallet"} :
        createGameFromPrompt(c, "rain", DeclaredOptions, a, how)
  \/ \E g \in Ids, u \in Users, h \in BOOLEAN :
        \E o \in OptionsTyped(g) : addPlayerToGame(g, u, o, h)
  \/ \E g \in Ids, u \in Users, pay \in PayOutcomes :
        \E o \in OptionsTyped(g) \cup {""} : joinCommand(g, u, o, pay)
  \/ \E g \in Ids, w \in Outcomes \cup {""} : executeCoinToss(g, w)
  \/ \E g \in Ids, u \in Users, w \in Outcomes \cup {""} : executeCommand(g, u, w)
  \/ executeCoinTossFinish
  \/ \E g \in Ids : cancelGame(g)
  \/ listCommand

Spec == Init /\ [][Next]_vars

----------------------------------------------------------------------------
(* addPlayerToGame calls that do not wait for one another *)

\* the wager the concurrent calls are for
RaceId == 1

\* a stored wager of u1 with its escrow wallet, made by createGame (no declared
\* options) or by createGameFromPrompt (declared options)
InitRace ==
  /\ engine \in {"cointoss", "cointoss_new"}
  /\ \E options \in {<<>>, DeclaredOptions} :
        games = [id \in Ids |->
                   IF id = RaceId
                   THEN [NewGame("u1", 5, WalletAddress(RaceId, 1))
                           EXCEPT !.betOptions = options]
                   ELSE NoGame]
  /\ wallets = [id \in Ids |-> IF id = RaceId THEN 1 ELSE 0]
  /\ cur = Idle
  /\ last = [op |-> "start", id |-> 0, outcome |-> "ok", transfers |-> NoTransfers]
  /\ NoCalls
  /\ NoParse
  /\ NoStorage
  /\ NoListener

\* addPlayerToGame up to its write: `await getGame`, the checks, the pushes
\* onto the object that was read
addPlayerToGameRead(player, chosenOption, hasPaid) ==
  /\ calls[player] = NoCall
  /\ LET err == AddPlayerError(games[RaceId], player, chosenOption, hasPaid)
     IN calls' = [calls EXCEPT ![player] =
                    IF err = "ok"
                    THEN [pc |-> "read", game |-> games[RaceId], option |-> chosenOption]
                    ELSE [pc |-> "done", outcome |-> err]]
  /\ UNCHANGED <<engine, games, wallets, cur, last, parseVars, storageVars, listenerVars>>

\* a write that reads the stored record again and adds the player to that
WrittenRecordFresh(player) ==
  WithPlayer(games[RaceId], player, calls[player].option)

\* the object handed to updateGame: the record the call read, with the player
\* and the option pushed and the status set
WrittenRecord(player) ==
  WithPlayer(calls[player].game, player, calls[player].option)

\* addPlayerToGame from `await updateGame(game)` to its return
addPlayerToGameWrite(player) ==
  /\ calls[player].pc = "read"
  /\ games' = [games EXCEPT ![RaceId] = WrittenRecord(player)]
  /\ calls' = [calls EXCEPT ![player] = [pc |-> "done", outcome |-> "ok"]]
  /\ UNCHANGED <<engine, wallets, cur, last, parseVars, storageVars, listenerVars>>

NextRace ==
  \/ \E p \in Users, o \in TypedOptions, h \in BOOLEAN : addPlayerToGameRead(p, o, h)
  \/ \E p \in Users : addPlayerToGameWrite(p)

SpecRace == InitRace /\ [][NextRace]_vars

----------------------------------------------------------------------------
(* Toss requests in natural language (cointoss_new) *)

MaxTossAmount == 10   \* "Enforce a maximum toss amount of 10 USDC"
DEFAULT_AMOUNT == <<"string", 1>>
DEFAULT_OPTIONS == <<"yes", "no">>

\* amounts that appear in prompts and answers: below, at and above the maximum
AmountValues == {0, 5, MaxTossAmount, MaxTossAmount + 40}

\* a JSON value for "amount": absent (<<>>), or a string of digits or a number
JsonAmounts ==
  {<<>>} \cup {<<t, n>> : t \in {"string", "number"}, n \in AmountValues}

\* prompts: `words` followed, when `for` is not empty, by " for <digits>";
\* length is the number of characters of the whole prompt
Prompts ==
  {[words |-> "hi", length |-> 2, for |-> <<>>]}
    \cup {[words |-> "rain", length |-> 4, for |-> <<>>]}
    \cup {[words |-> "rain", length |-> 10, for |-> <<n>>] : n \in AmountValues}

\* the objects the agent's answer can hold between its braces
JsonObjects ==
  [valid : {"true", "false", "absent"},
   topic : {<<>>, <<"sun">>},
   options : {<<>>, <<"a">>, <<"a", "b">>, <<"a", "b", "c">>},
   amount : JsonAmounts]

\* the agent's answers: text without braces, braces around text that is not
\* JSON, a JSON object, or no answer at all (processMessage throws)
Responses ==
  {[kind |-> "text"], [kind |-> "malformed"], [kind |-> "throws"]}
    \cup {[kind |-> "json", object |-> o] : o \in JsonObjects}

InitParse ==
  /\ engine = "cointoss_new"
  /\ games = [id \in Ids |-> NoGame]
  /\ wallets = [id \in Ids |-> 0]
  /\ cur = Idle
  /\ last = [op |-> "start", id |-> 0, outcome |-> "ok", transfers |-> NoTransfers]
  /\ NoCalls
  /\ prompt \in Prompts
  /\ response \in Responses
  /\ parsed = NotParsed
  /\ NoStorage
  /\ NoListener

\* the text of a prompt, as a list of its parts
PromptText(p) == <<p.words>> \o p.for

\* the JavaScript truthiness of an amount: undefined, "" and 0 are falsy,
\* every string of digits (even "0") is truthy
AmountTruthy(a) ==
  /\ a # <<>>
  /\ a[1] = "number" => a[2] # 0

\* a || b on amounts
OrElse(a, b) == IF AmountTruthy(a) THEN a ELSE b

\* prompt.match(/for\s+(\d+(\.\d+)?)\s*$/i): the digits as a string, or null
ExtractedAmount(p) == IF p.for = <<>> THEN <<>> ELSE <<"string", p.for[1]>>

\* extractJsonFromResponse: the object, or null without braces or when
\* JSON.parse throws
extractJsonFromResponse(r) ==
  IF r.kind = "json" THEN r.object ELSE [null |-> TRUE]

\* amount: extractedAmount || parsedJson.amount || DEFAULT_AMOUNT
ResultAmount(p, json) ==
  OrElse(ExtractedAmount(p), OrElse(json.amount, DEFAULT_AMOUNT))

\* parseNaturalLanguageToss: the ParsedToss returned, or the error thrown
ParsedToss(p, r) ==
  IF p.length < 3
  THEN [status |-> "ok", topic |-> PromptText(p), options |-> DEFAULT_OPTIONS,
        amount |-> DEFAULT_AMOUNT]
  ELSE IF r.kind = "throws"
  THEN [status |-> "throw", error |-> "agent failed"]
  ELSE LET json == extractJsonFromResponse(r)
       IN IF "null" \in DOMAIN json
          THEN \* parsedJson.valid on null
               [status |-> "throw", error |-> "TypeError"]
          ELSE IF json.valid = "false"
          THEN [status |-> "throw", error |-> "Invalid toss request"]
          ELSE [status |-> "ok",
                topic |-> IF json.topic = <<>> THEN PromptText(p) ELSE json.topic,
                options |-> IF Len(json.options) >= 2
                            THEN <<json.options[1], json.options[2]>>
                            ELSE DEFAULT_OPTIONS,
                amount |-> ResultAmount(p, json)]

\* parseNaturalLanguageToss(agent, config, prompt)
parseNaturalLanguageToss ==
  /\ parsed = NotParsed
  /\ parsed' = ParsedToss(prompt, response)
  /\ UNCHANGED <<engine, games, wallets, cur, last, raceVars, storageVars, listenerVars, prompt, response>>

\* TossManager.createGameFromPrompt after the parse: createGame with the
\* parsed amount, then topic and options written with updateToss
createGameParsed(creator, walletOk) ==
  /\ parsed.status = "ok"
  /\ last.op = "start"
  /\ getLastIdToss + 1 \in Ids
  /\ CreateGameAt("createGameFromPrompt", getLastIdToss + 1, creator, parsed.amount[2],
                  parsed.topic, parsed.options, walletOk)
  /\ UNCHANGED <<engine, cur, raceVars, parseVars, storageVars, listenerVars>>

\* TossManager.createGameFromPrompt when the parse threw
createGameParseFailed ==
  /\ parsed.status = "throw"
  /\ last.op = "start"
  /\ Done("createGameFromPrompt", 0, parsed.error, NoTransfers)
  /\ UNCHANGED <<engine, games, wallets, cur, raceVars, parseVars, storageVars, listenerVars>>

NextParse ==
  \/ parseNaturalLanguageToss
  \/ \E c \in Creators, w \in BOOLEAN : createGameParsed(c, w)
  \/ createGameParseFailed

SpecParse == InitParse /\ [][NextParse]_vars

----------------------------------------------------------------------------
(* Wallet storage with Redis or local files *)

\* the two storage modules with an initializeStorage:
\*   "paymentagent" : examples/paymentagent/src/storage.ts
\*   "cointoss"     : the storage module of the coin-toss agent (part_004)
StorageModules == {"paymentagent", "cointoss"}
WalletDatas == {"w1", "w2"}

InitStorage ==
  /\ engine = "cointoss"
  /\ games = [id \in Ids |-> NoGame]
  /\ wallets = [id \in Ids |-> 0]
  /\ cur = Idle
  /\ last = [op |-> "start", id |-> 0, outcome |-> "ok", transfers |-> NoTransfers]
  /\ NoCalls
  /\ NoParse
  /\ storage \in {[module |-> m, backend |-> "none"] : m \in StorageModules}
  /\ walletFiles = [u \in StorageUsers |-> NoData]
  /\ redisKeys = [u \in StorageUsers |-> NoData]
  /\ storageLast = [op |-> "none"]
  /\ NoListener

\* the backend after initializeStorage
\*   paymentagent: `await redisClient.connect()` inside try; the catch sets
\*                 redisClient to null and calls ensureLocalStorage
\*   cointoss:     `new RedisStorageProvider()` inside try; its constructor
\*                 calls connect() without awaiting it, so a failing
\*                 connection never reaches the catch
Backend(module, redisUrl, connectOk) ==
  IF ~redisUrl THEN "local"
  ELSE IF module = "paymentagent" THEN (IF connectOk THEN "redis" ELSE "local")
  ELSE "redis"

\* initializeStorage()
\*   redisUrl: REDIS_URL is set;  connectOk: the connection to Redis is made
initializeStorage(redisUrl, connectOk) ==
  /\ storage.backend = "none"
  /\ storage' = [module |-> storage.module,
                 backend |-> Backend(storage.module, redisUrl, connectOk),
                 redisUrl |-> redisUrl,
                 isReady |-> redisUrl /\ connectOk]
  /\ storageLast' = [op |-> "initializeStorage"]
  /\ UNCHANGED <<engine, games, wallets, cur, last, raceVars, parseVars, listenerVars,
                 walletFiles, redisKeys>>

\* a command sent through a Redis client whose connection was never made is
\* rejected (or never answered)
RedisUsable == storage.backend = "redis" /\ storage.isReady

\* saveWalletData(userId, walletData) / StorageProvider.saveUserWallet(wallet)
saveWalletData(userId, walletData) ==
  /\ storage.backend # "none"
  /\ IF storage.backend = "local"
     THEN /\ walletFiles' = [walletFiles EXCEPT ![userId] = walletData]
          /\ storageLast' = [op |-> "save", user |-> userId, result |-> "ok"]
          /\ UNCHANGED redisKeys
     ELSE IF RedisUsable
     THEN /\ redisKeys' = [redisKeys EXCEPT ![userId] = walletData]
          /\ storageLast' = [op |-> "save", user |-> userId, result |-> "ok"]
          /\ UNCHANGED walletFiles
     ELSE /\ storageLast' = [op |-> "save", user |-> userId, result |-> "throw"]
          /\ UNCHANGED <<walletFiles, redisKeys>>
  /\ UNCHANGED <<engine, games, wallets, cur, last, raceVars, parseVars, listenerVars, storage>>

\* getWalletData(userId) / StorageProvider.getUserWallet(userId)
getWalletData(userId) ==
  /\ storage.backend # "none"
  /\ storageLast' =
        [op |-> "get", user |-> userId,
         result |-> IF storage.backend = "local" THEN walletFiles[userId]
                    ELSE IF RedisUsable THEN redisKeys[userId]
                    ELSE "throw"]
  /\ UNCHANGED <<engine, games, wallets, cur, last, raceVars, parseVars, listenerVars,
                 storage, walletFiles, redisKeys>>

NextStorage ==
  \/ \E redisUrl \in BOOLEAN, connectOk \in BOOLEAN : initializeStorage(redisUrl, connectOk)
  \/ \E u \in StorageUsers, d \in WalletDatas : saveWalletData(u, d)
  \/ \E u \in StorageUsers : getWalletData(u)

SpecStorage == InitStorage /\ [][NextStorage]_vars

----------------------------------------------------------------------------
(* The message listeners *)

MaxMessages == 5   \* messages the listener is given

\* the agents with a startMessageListener:
\*   "cointoss"     : examples/cointoss/src/xmtp.ts with handleMessage of index.ts
\*   "cointoss_new" : examples/cointoss_new/chatbot.ts
\*   "legacy"       : the listener of part_002, whose handler is a parameter
Agents == {"cointoss", "cointoss_new", "legacy"}

InitListener ==
  /\ engine = "cointoss"
  /\ games = [id \in Ids |-> NoGame]
  /\ wallets = [id \in Ids |-> 0]
  /\ cur = Idle
  /\ last = [op |-> "start", id |-> 0, outcome |-> "ok", transfers |-> NoTransfers]
  /\ NoCalls
  /\ NoParse
  /\ NoStorage
  /\ agent \in Agents
  /\ listening = TRUE
  /\ handled = 0
  /\ replies = 0
  /\ lastMessage = "none"

\* handleMessage: how the call ends
\*   commandOk: handleCommand returns a response (FALSE: it throws)
\*   sendOk: conversation.send(response) succeeds
\*   errorSendOk: conversation.send(error message) in the catch succeeds
\* cointoss: the catch block sends the error message; a failure there
\*           rejects the promise of handleMessage
\* cointoss_new: the catch block only logs
\* legacy: the handler passed in ends like the handler of cointoss
handleMessage(commandOk, sendOk, errorSendOk) ==
  IF commandOk /\ sendOk THEN "replied"
  ELSE IF agent = "cointoss_new" THEN "dropped"
  ELSE IF errorSendOk THEN "error replied"
  ELSE "rejected"

\* the loop body of startMessageListener around `await handleMessage(...)`:
\* only the listener of part_002 has a try/catch inside the loop
LoopSurvives(outcome) == outcome # "rejected" \/ agent = "legacy"

\* startMessageListener: one message that passes the filters
receiveMessage(commandOk, sendOk, errorSendOk) ==
  /\ listening
  /\ handled < MaxMessages
  /\ LET outcome == handleMessage(commandOk, sendOk, errorSendOk)
     IN /\ lastMessage' = outcome
        /\ replies' = IF outcome \in {"replied", "error replied"} THEN replies + 1 ELSE replies
        /\ listening' = LoopSurvives(outcome)
  /\ handled' = handled + 1
  /\ UNCHANGED <<engine, games, wallets, cur, last, raceVars, parseVars, storageVars, agent>>

\* startMessageListener: a message the filters skip (`continue`): the agent's
\* own message, not text, no command, or no conversation found
skipMessage ==
  /\ listening
  /\ lastMessage # "skipped"
  /\ lastMessage' = "skipped"
  /\ UNCHANGED <<engine, games, wallets, cur, last, raceVars, parseVars, storageVars,
                 agent, listening, handled, replies>>

NextListener ==
  \/ \E commandOk \in BOOLEAN, sendOk \in BOOLEAN, errorSendOk \in BOOLEAN :
        receiveMessage(commandOk, sendOk, errorSendOk)
  \/ skipMessage

SpecListener == InitListener /\ [][NextListener]_vars

----------------------------------------------------------------------------
(* Properties *)

\* C1 (as stated): once the stored status of a wager of GameManager is
\* COMPLETED or CANCELLED, no later call changes any field of the stored record.
\* Refuted: createGame on a fresh GameManager takes its id from the active
\* wagers only and writes the new wager over the terminal one.
C1_TerminalImmutable ==
  [][\A g \in Ids :
       (engine = "cointoss" /\ games[g].status \in {"COMPLETED", "CANCELLED"})
          => games'[g] = games[g]]_vars

\* C2: addPlayerToGame on a wager whose stored status is neither CREATED nor
\* WAITING_FOR_PLAYER throws and leaves the store unchanged, for every player,
\* option and hasPaid.
C2_JoinGate ==
  [][\A g \in Ids, u \in Users, o \in TypedOptions, h \in BOOLEAN :
       (/\ last'.op = "addPlayerToGame"
        /\ games[g].status \notin {"CREATED", "WAITING_FOR_PLAYER"}
        /\ addPlayerToGame(g, u, o, h))
          => (last'.op = "addPlayerToGame" /\ last'.outcome # "ok" /\ games' = games)]_vars

\* a join was refused on a COMPLETED wager
C2_Witness ==
  /\ last.op = "addPlayerToGame"
  /\ last.outcome = "Game is not accepting players"
  /\ games[last.id].status = "COMPLETED"

\* C3: executeCoinToss throws and writes nothing unless the stored status is
\* WAITING_FOR_PLAYER and there are at least 2 participants; so a second
\* executeCoinToss on a COMPLETED wager leaves the record as it is.
C3_ResolveGate ==
  [][\A g \in Ids, w \in Outcomes \cup {""} :
       (/\ ~(games[g].status = "WAITING_FOR_PLAYER" /\ Len(games[g].participants) >= 2)
        /\ executeCoinToss(g, w))
          => (/\ last'.op = "executeCoinToss"
              /\ last'.outcome # "ok"
              /\ games' = games
              /\ cur' = Idle)]_vars

\* executeCoinToss was refused on a COMPLETED wager that has winners
C3_Witness ==
  /\ last.op = "executeCoinToss"
  /\ last.outcome = "Game is not ready for coin toss"
  /\ games[last.id].status = "COMPLETED"
  /\ games[last.id].winner # <<>>

\* C4: in every stored wager, participants holds no id twice and
\* participantOptions holds exactly one entry for each participant and none for
\* anyone else; addPlayerToGame by a player already in participants throws and
\* changes nothing.
C4_Participants ==
  /\ [](\A g \in Ids : games[g] # NoGame =>
          LET p == games[g].participants
              po == games[g].participantOptions
          IN /\ \A i, j \in 1..Len(p) : p[i] = p[j] => i = j
             /\ \A u \in Users :
                  Cardinality({i \in 1..Len(po) : po[i].userId = u})
                    = (IF \E i \in 1..Len(p) : p[i] = u THEN 1 ELSE 0))
  /\ [][\A g \in Ids, u \in Users, o \in TypedOptions, h \in BOOLEAN :
          (/\ last'.op = "addPlayerToGame"
           /\ games[g] # NoGame
           /\ \E i \in 1..Len(games[g].participants) : games[g].participants[i] = u
           /\ addPlayerToGame(g, u, o, h))
             => (last'.outcome # "ok" /\ games' = games)]_vars

\* a participant of a wager with two participants tried to join again
C4_Witness ==
  /\ last.op = "addPlayerToGame"
  /\ last.outcome = "You are already in this game"
  /\ Len(games[last.id].participants) = 2
  /\ Len(games[last.id].participantOptions) = 2

\* C5: when executeCoinToss selects (cointoss) or is given (cointoss_new) a
\* winning option that no participant chose, the wager is stored CANCELLED with
\* paymentSuccess false, and the call makes no transfer.
C5_NoWinner ==
  [][(cur # Idle /\ cur' = Idle) =>
       LET g == cur.id
           po == games[g].participantOptions
           o == IF engine = "cointoss" THEN games'[g].coinTossResult ELSE cur.option
       IN (/\ o # ""
           /\ \A i \in 1..Len(po) : ToLowerCase(po[i].option) # ToLowerCase(o))
            => (/\ games'[g].status = "CANCELLED"
                /\ games'[g].paymentSuccess = FALSE
                /\ last'.transfers = <<>>)]_vars

\* a resolution ended on an option that none of the participants chose
C5_Witness ==
  /\ cur = Idle
  /\ last.op \in {"executeCoinToss", "execute", "close"}
  /\ games[last.id].status = "CANCELLED"
  /\ games[last.id].coinTossResult # ""
  /\ Len(games[last.id].participants) >= 2
  /\ \A i \in 1..Len(games[last.id].participantOptions) :
        ToLowerCase(games[last.id].participantOptions[i].option)
          # ToLowerCase(games[last.id].coinTossResult)

\* C6: the winner list of a COMPLETED wager is exactly the participants whose
\* option equals the outcome, compared case-insensitively, in join order.
C6_WinnerList ==
  \A g \in Ids : games[g].status = "COMPLETED" =>
     LET po == games[g].participantOptions
     IN games[g].winner =
          SelectSeq(games[g].participants,
                    LAMBDA u : \E i \in 1..Len(po) :
                                 /\ po[i].userId = u
                                 /\ ToLowerCase(po[i].option) = ToLowerCase(games[g].coinTossResult))

\* a COMPLETED wager with outcome "yes", won by a participant who typed "Yes",
\* and with a participant who did not win
C6_Witness ==
  \E g \in Ids :
     /\ games[g].status = "COMPLETED"
     /\ games[g].coinTossResult = "yes"
     /\ Len(games[g].winner) >= 1
     /\ Len(games[g].winner) < Len(games[g].participants)
     /\ \E i \in 1..Len(games[g].participantOptions) :
           /\ games[g].participantOptions[i].option = "Yes"
           /\ games[g].participantOptions[i].userId = games[g].winner[1]

\* C7 (as stated): when a wager with n participants, stake s and k >= 1
\* winners is resolved, executeCoinToss calls transfer exactly once per winner,
\* each time for (s*n)/k, so the payouts requested sum to s*n.
\* Refuted: a winner whose wallet lookup fails is skipped, and no transfer is
\* requested when the lookup of the escrow wallet throws.
C7_Original ==
  [][(cur # Idle /\ cur' = Idle /\ games'[cur.id].status = "COMPLETED") =>
       LET g == cur.id
           w == games'[g].winner
           t == last'.transfers
       IN /\ Len(t) = Len(w)
          /\ \A i \in 1..Len(t) :
               /\ t[i].user = w[i]
               /\ t[i].amount.num * Len(w)
                    = games[g].betAmount * Len(games[g].participants) * t[i].amount.den]_vars

\* C7 (amended): executeCoinToss calls transfer at most once per winner, only
\* for winners, in winner order and only when the wager ends COMPLETED; every
\* call is a payout of (s*n)/k from the wager's escrow; when paymentSuccess is
\* stored true, every winner got one call, so the payouts requested sum to s*n.
C7_Payout ==
  [][(cur # Idle /\ cur' = Idle) =>
       LET g == cur.id
           w == games'[g].winner
           t == last'.transfers
           pot == games[g].betAmount * Len(games[g].participants)
       IN /\ t # <<>> => games'[g].status = "COMPLETED"
          /\ \A i \in 1..Len(t) :
               /\ t[i].kind = "payout"
               /\ t[i].game = g
               /\ \E j \in 1..Len(w) : w[j] = t[i].user
               /\ t[i].amount.num * Len(w) = pot * t[i].amount.den
          /\ \A i, j \in 1..Len(t) :
               i < j => \E a, b \in 1..Len(w) : a < b /\ w[a] = t[i].user /\ w[b] = t[j].user
          /\ (games'[g].status = "COMPLETED" /\ games'[g].paymentSuccess) =>
               /\ Len(t) = Len(w)
               /\ \A i \in 1..Len(t) : t[i].user = w[i]
               /\ Len(t) * t[1].amount.num = pot * t[1].amount.den]_vars

\* s = 5, n = 3, k = 2: two winners, one of them skipped, the other sent 15/2
C7_Witness ==
  /\ cur = Idle
  /\ last.op \in {"executeCoinToss", "execute", "close"}
  /\ games[last.id].status = "COMPLETED"
  /\ Len(games[last.id].participants) = 3
  /\ Len(games[last.id].winner) = 2
  /\ Len(last.transfers) = 1
  /\ last.transfers[1].amount = [num |-> 15, den |-> 2]

C9_InvalidOutcome ==
  [][(/\ cur # Idle
      /\ cur' = Idle
      /\ engine = "cointoss_new"
      /\ \A i \in 1..Len(EffectiveOptions(games[cur.id])) :
            ToLowerCase(EffectiveOptions(games[cur.id])[i]) # ToLowerCase(cur.option))
        => (/\ last'.outcome # "ok"
            /\ games'[cur.id] = [games[cur.id] EXCEPT !.status = "WAITING_FOR_PLAYER"])]_vars

\* C10: in the join command, when makePayment returns false (the payer's
\* wallet lookup throws, transfer returns nothing or throws) the store is left
\* unchanged; addPlayerToGame with hasPaid = false throws without writing.
C10_PaymentCoupling ==
  [][/\ \A g \in Ids, u \in Users, o \in TypedOptions :
          (last'.op = "addPlayerToGame" /\ addPlayerToGame(g, u, o, FALSE)) => (last'.outcome # "ok" /\ games' = games)
     /\ \A g \in Ids, u \in Users, o \in TypedOptions, pay \in {"nowallet", "undefined", "throw"} :
          (last'.op = "join" /\ joinCommand(g, u, o, pay)) => (last'.outcome # "ok" /\ games' = games)]_vars

\* a join whose stake transfer threw: the payer is not among the participants
C10_Witness ==
  /\ last.op = "join"
  /\ last.outcome = "Payment failed"
  /\ Len(last.transfers) = 1
  /\ last.transfers[1].kind = "stake"
  /\ last.transfers[1].result = "throw"
  /\ \A i \in 1..Len(games[last.id].participants) :
        games[last.id].participants[i] # last.transfers[1].user

\* C11 (as stated): a transfer whose wait timed out or failed is recorded as
\* a failure: a join whose stake transfer ended that way does not enroll the
\* payer, and a resolution with such a payout stores paymentSuccess false.
\* Refuted: transfer returns the transfer object after catching the error of
\* wait(), and both callers only test that a value was returned.
C11_AmbiguousIsFailure ==
  /\ last.op = "join" =>
       \A i \in 1..Len(last.transfers) :
          last.transfers[i].result = "timeout" =>
             \A j \in 1..Len(games[last.id].participants) :
                games[last.id].participants[j] # last.transfers[i].user
  /\ (cur = Idle /\ last.op \in {"executeCoinToss", "execute", "close"}) =>
       \A i \in 1..Len(last.transfers) :
          last.transfers[i].result = "timeout" => games[last.id].paymentSuccess = FALSE

\* C12 (as stated): createGame gives the new wager an id no stored wager has
\* (terminal wagers included) and never writes over a stored record.
\* Refuted for GameManager: the id is one more than the highest id of the
\* active wagers, or 1 when the constructor's initializeLastGameId has not
\* finished.
C12_FreshId ==
  [][\A g \in Ids :
       (games'[g] # games[g] /\ games'[g].status = "CREATED") => games[g] = NoGame]_vars

\* C13 (as stated): no two wagers share an escrow wallet: the wallet stored
\* under a wager's key is that wager's and never the wallet of another wager,
\* so the wallet under the key of a stored wager is never replaced.
\* Refuted for GameManager: a wager created under a reused id stores its
\* wallet under the key game:<id> of the wager that had the id before.
C13_OwnWallet ==
  [][\A g \in Ids : games[g] # NoGame => wallets'[g] = wallets[g]]_vars

\* C14 (as stated): in the random-outcome engine the winning option index is
\* within the options for every drawn value, so a resolution that gets to the
\* draw records a coinTossResult that is one of the effective options.
\* Refuted: timestamp ^ random is a signed 32-bit value; a negative one gives a
\* negative index, options[index] is undefined and the call throws.
C14_IndexInRange ==
  (/\ engine = "cointoss"
   /\ cur = Idle
   /\ last.op \in {"executeCoinToss", "execute"}
   /\ last.outcome \in {"ok", "TypeError"}
   /\ Len(EffectiveOptions(games[last.id])) >= 2)
     => (/\ last.outcome = "ok"
         /\ \E i \in 1..Len(EffectiveOptions(games[last.id])) :
               EffectiveOptions(games[last.id])[i] = games[last.id].coinTossResult)

\* C15: in a wager with declared options every recorded option equals a
\* declared one up to case, and addPlayerToGame with an option that matches
\* no declared one throws and leaves the stored records as they were.
C15_DeclaredOptions ==
  /\ [](\A g \in Ids :
          (games[g] # NoGame /\ Len(games[g].betOptions) > 0) =>
             \A i \in 1..Len(games[g].participantOptions) :
                \E k \in 1..Len(games[g].betOptions) :
                   ToLowerCase(games[g].betOptions[k]) =
                      ToLowerCase(games[g].participantOptions[i].option))
  /\ [][\A g \in Ids, u \in Users, o \in TypedOptions, h \in BOOLEAN :
          (/\ last'.op = "addPlayerToGame"
           /\ games[g] # NoGame
           /\ Len(games[g].betOptions) > 0
           /\ \A k \in 1..Len(games[g].betOptions) :
                 ToLowerCase(games[g].betOptions[k]) # ToLowerCase(o)
           /\ addPlayerToGame(g, u, o, h))
            => (last'.outcome # "ok" /\ games' = games)]_vars

\* a declared wager holds a participant whose option differs from the declared
\* one only by case, and the last addPlayerToGame was refused for its option
C15_Witness ==
  /\ last.op = "addPlayerToGame"
  /\ last.outcome = "Invalid option"
  /\ Len(games[last.id].betOptions) > 0
  /\ \E i \in 1..Len(games[last.id].participantOptions) :
        games[last.id].participantOptions[i].option = "Yes"

C17_CancelFrame ==
  [][\A g \in Ids :
       (last'.op = "cancelGame" /\ cancelGame(g)) =>
          /\ wallets' = wallets
          /\ last'.transfers = NoTransfers
          /\ \A h \in Ids \ {g} : games'[h] = games[h]
          /\ IF games[g] = NoGame \/ games[g].status = "COMPLETED"
             THEN last'.outcome # "ok" /\ games'[g] = games[g]
             ELSE /\ last'.outcome = "ok"
                  /\ games'[g].status = "CANCELLED"
                  /\ DOMAIN games'[g] = DOMAIN games[g]
                  /\ \A f \in DOMAIN games[g] \ {"status"} :
                        games'[g][f] = games[g][f]]_vars

\* a wager with paid-in participants has just been cancelled, without a transfer
C17_Witness ==
  /\ last.op = "cancelGame"
  /\ last.outcome = "ok"
  /\ games[last.id].status = "CANCELLED"
  /\ Len(games[last.id].participants) >= 1
  /\ last.transfers = NoTransfers

C19_CreatorOnly ==
  [][\A g \in Ids, u \in Users, w \in Outcomes \cup {""} :
       /\ (/\ last'.op = CommandName
           /\ games[g] # NoGame
           /\ u # games[g].creator
           /\ executeCommand(g, u, w))
            => (/\ last'.outcome = "Only the game creator can execute the coin toss."
                /\ games' = games
                /\ wallets' = wallets
                /\ cur' = Idle)
       /\ (cur' # Idle /\ cur'.op = CommandName /\ executeCommand(g, u, w))
            => u = games[g].creator]_vars

\* a wager with two participants, ready to be resolved, whose execute / close
\* command from a sender other than the creator was just refused
C19_Witness ==
  /\ last.op = CommandName
  /\ last.outcome = "Only the game creator can execute the coin toss."
  /\ Len(games[last.id].participants) >= 2
  /\ games[last.id].status = "WAITING_FOR_PLAYER"

\* C20: messages are handled one at a time: while a resolution is between its
\* two store writes, the only step taken is the end of that same resolution,
\* so no other operation reads or writes the store in between.
C20_OneAtATime ==
  [][cur # Idle =>
        (/\ cur' = Idle
         /\ last'.op = cur.op
         /\ last'.id = cur.id
         /\ \A g \in Ids \ {cur.id} : games'[g] = games[g])]_vars

\* the handler of an execute / close message is between its two store writes
C20_Witness ==
  /\ cur # Idle
  /\ cur.op = CommandName
  /\ games[cur.id].status = "IN_PROGRESS"
  /\ last.op = "join"

\* C21: concurrent addPlayerToGame calls lose updates: the write of a call
\* stores the record the call read plus its own player, so every player
\* enrolled in the store since that read is dropped from the stored record,
\* although that player's call returned success.
C21_LostUpdate ==
  [][\A p \in Users :
       addPlayerToGameWrite(p) =>
          /\ calls'[p].outcome = "ok"
          /\ \A q \in Users \ {p} :
                (/\ Includes(games[RaceId].participants, q)
                 /\ ~Includes(calls[p].game.participants, q))
                  => (/\ calls[q] = [pc |-> "done", outcome |-> "ok"]
                      /\ ~Includes(games'[RaceId].participants, q))]_vars

\* two calls by different players have both returned success and the stored
\* record holds one of the two players only
C21_Witness ==
  \E p \in Users, q \in Users :
     /\ p # q
     /\ calls[p] = [pc |-> "done", outcome |-> "ok"]
     /\ calls[q] = [pc |-> "done", outcome |-> "ok"]
     /\ games[RaceId].participants = <<q>>

\* C22 (as stated): a wager stored as IN_PROGRESS with no resolution running
\* can still be brought to COMPLETED or CANCELLED by some operation.
\* Refuted for TossManager: it has no cancel operation, and executeCoinToss
\* and addPlayerToGame refuse a wager whose status is IN_PROGRESS.
C22_Recoverable ==
  \A g \in Ids :
     (cur = Idle /\ games[g].status = "IN_PROGRESS")
        => ENABLED (Next /\ games'[g].status \in Terminal)

\* C23 (as stated): a wager made from a natural-language prompt never has a
\* stake above 10 USDC, whatever the prompt and the agent's answer hold.
\* Refuted: the maximum is only a sentence of the agent's instructions; the
\* amount taken from the prompt or from the answer is stored as it is.
C23_AmountCapped ==
  \A g \in Ids :
     (games[g] # NoGame /\ last.op = "createGameFromPrompt" /\ parsed.status = "ok")
        => games[g].betAmount <= MaxTossAmount

\* C29 (as stated): when the agent's answer holds no parsable JSON object,
\* parseNaturalLanguageToss returns the defaults: the prompt as topic, the
\* options yes/no and the amount of the prompt or else 1.
\* Refuted: extractJsonFromResponse returns null and parsedJson.valid throws.
C29_DefaultsWithoutJson ==
  (parsed # NotParsed /\ prompt.length >= 3 /\ response.kind \in {"text", "malformed"})
     => (/\ parsed.status = "ok"
         /\ parsed.topic = PromptText(prompt)
         /\ parsed.options = DEFAULT_OPTIONS
         /\ parsed.amount = OrElse(ExtractedAmount(prompt), DEFAULT_AMOUNT))

\* C24 (as stated): with REDIS_URL set and the connection to Redis failing,
\* every save after initializeStorage writes the local file of the user and
\* every later read returns what the file holds.
\* Refuted for the coin-toss storage module: its Redis provider starts the
\* connection without awaiting it, so the fallback in initializeStorage is
\* never taken and saves and reads go to the unconnected client.
C24_FallbackToFiles ==
  [][(storage.backend # "none" /\ storage.redisUrl /\ ~storage.isReady) =>
        /\ \A u \in StorageUsers, d \in WalletDatas :
              saveWalletData(u, d) => walletFiles'[u] = d
        /\ \A u \in StorageUsers :
              getWalletData(u) => storageLast'.result = walletFiles[u]]_vars

\* C25 (as stated): in the engine of GameManager the stored status of a wager
\* changes only from CREATED to WAITING_FOR_PLAYER, from WAITING_FOR_PLAYER
\* to IN_PROGRESS, from IN_PROGRESS to COMPLETED or CANCELLED, and from any
\* status but COMPLETED to CANCELLED; READY is never stored.
\* Refuted: createGame under a reused id stores CREATED over a record of any
\* status, COMPLETED included.
C25_StatusEdges ==
  [][engine = "cointoss" =>
       \A g \in Ids :
          /\ games'[g].status # "READY"
          /\ games'[g].status # games[g].status =>
                LET from == games[g].status
                    to == games'[g].status
                IN \/ from = "NONE" /\ to = "CREATED"
                   \/ from = "CREATED" /\ to = "WAITING_FOR_PLAYER"
                   \/ from = "WAITING_FOR_PLAYER" /\ to = "IN_PROGRESS"
                   \/ from = "IN_PROGRESS" /\ to \in {"COMPLETED", "CANCELLED"}
                   \/ from \notin {"NONE", "COMPLETED"} /\ to = "CANCELLED"]_vars

\* C26 (as stated): in the join command, whenever the stake transfer of the
\* sender succeeds, the sender is afterwards recorded in the wager with the
\* chosen option.
\* Refuted for the cointoss agent: its join command pays before
\* addPlayerToGame tests the option against the declared ones.
C26_PaidMeansEnrolled ==
  (/\ last.op = "join"
   /\ Len(last.transfers) = 1
   /\ last.transfers[1].result = "ok")
    => \E i \in 1..Len(games[last.id].participantOptions) :
          games[last.id].participantOptions[i].userId = last.transfers[1].user

\* C27 (as stated): every executeCoinToss call that gets past its gate ends
\* with the stored wager COMPLETED or CANCELLED: once a resolution is over,
\* the wager it was for is not stored as IN_PROGRESS.
\* Refuted: a negative draw in GameManager and a failing escrow wallet lookup
\* in TossManager throw between the two writes.
C27_ResolutionFinishes ==
  (cur = Idle /\ last.op \in {"executeCoinToss", "execute", "close"})
     => games[last.id].status # "IN_PROGRESS"

\* C28 (as stated): the wallet stored for a key stays the same: for every
\* stored wager, the wallet under its key is still the one whose address the
\* wager recorded when it was created.
\* Refuted: getWallet makes and stores a new wallet for the key when the
\* stored one cannot be decrypted or imported.
C28_WalletStable ==
  \A g \in Ids :
     games[g] # NoGame => games[g].walletAddress = WalletAddress(g, wallets[g])

\* C30 (as stated): the listener survives a failing message: whatever the
\* command processing and the sending of the reply and of the error reply
\* do, the listener's loop keeps running.
\* Refuted for the cointoss agent: handleMessage sends the error reply from
\* its catch block, and the loop of startMessageListener has no try/catch.
C30_ListenerSurvives == agent \in Agents => listening
====
